---- MODULE Spec2Model ----
(***************************************************************************)
(* Model of the BKbox menu editor (src/main.py): the MenuEditor class, its *)
(* FTP helpers, the HTML load/save round trip and the three GUI handlers   *)
(* (add, remove, save).                                                    *)
(*                                                                         *)
(* Text is a sequence of one-character strings.  A file is a sequence of   *)
(* symbols: a start tag, an end tag, an <img> tag with its two attribute   *)
(* values, or one character of (escaped) text.  The parsed document (the   *)
(* soup) is a tree: top-level nodes, the children of the two containers,   *)
(* and the fields of each product item.                                    *)
(***************************************************************************)
EXTENDS Integers, Sequences, FiniteSets, TLC

VARIABLES
  phase,             \* "init", "running" (mainloop), "exited" (sys.exit(1)), "crashed"
  use_ftp,           \* USE_FTP and the three credentials are set
  html_file,         \* what self.html_path names on the local disk
  remote_file,       \* content of REMOTE_FILE on the server
  soup,              \* self.soup
  hits_var,          \* self.hits_var, the names shown in the "hits" listbox
  catalog_var,       \* self.catalog_var
  dialogs,           \* message boxes shown by the last handler, in order
  ftp_open,          \* connections the last handler opened and did not close
  local_written,     \* the process has written the local file
  upload_attempted,  \* the process has called _ftp_upload
  start_remote,      \* content of the remote file when the process started
  ops,               \* handlers run since the editor was constructed
  lastOp             \* the last handler and the arguments it was given

vars == <<phase, use_ftp, html_file, remote_file, soup, hits_var, catalog_var,
          dialogs, ftp_open, local_written, upload_attempted, start_remote, ops, lastOp>>

\* ------------------------------------------------------------------ bounds
\* most handlers (add, remove, save) run in one session
MaxOps == 3

\* ------------------------------------------------------------------ text
IsSpace(c) == c \in {" ", "\n"}

RECURSIVE LStrip(_)
LStrip(s) == IF s = <<>> THEN <<>>
             ELSE IF IsSpace(Head(s)) THEN LStrip(Tail(s)) ELSE s

RECURSIVE RStrip(_)
RStrip(s) == IF s = <<>> THEN <<>>
             ELSE IF IsSpace(s[Len(s)]) THEN RStrip(SubSeq(s, 1, Len(s) - 1)) ELSE s

\* str.strip()
Strip(s) == RStrip(LStrip(s))

RECURSIVE NewlineAt(_, _)
NewlineAt(s, i) == IF i > Len(s) THEN 0
                   ELSE IF s[i] = "\n" THEN i ELSE NewlineAt(s, i + 1)

\* str.splitlines()
RECURSIVE SplitLines(_)
SplitLines(s) ==
  IF s = <<>> THEN <<>>
  ELSE LET i == NewlineAt(s, 1) IN
       IF i = 0 THEN <<s>>
       ELSE <<SubSeq(s, 1, i - 1)>> \o SplitLines(SubSeq(s, i + 1, Len(s)))

RECURSIVE StripNonBlank(_)
StripNonBlank(ls) ==
  IF ls = <<>> THEN <<>>
  ELSE IF Strip(Head(ls)) = <<>> THEN StripNonBlank(Tail(ls))
       ELSE <<Strip(Head(ls))>> \o StripNonBlank(Tail(ls))

\* add_action: [line.strip() for line in description.splitlines() if line.strip()]
DescLines(description) == StripNonBlank(SplitLines(description))

\* ------------------------------------------------------------------ symbols of a file
Ch(c) == [k |-> "ch", tag |-> "", cls |-> "", src |-> <<>>, alt |-> <<>>, c |-> c]
Open(tag, cls) == [k |-> "open", tag |-> tag, cls |-> cls, src |-> <<>>, alt |-> <<>>, c |-> ""]
Close(tag) == [k |-> "close", tag |-> tag, cls |-> "", src |-> <<>>, alt |-> <<>>, c |-> ""]
ImgTag(src, alt) == [k |-> "img", tag |-> "img", cls |-> "", src |-> src, alt |-> alt, c |-> ""]

\* the output formatter never escapes
EscapeCharRaw(c) == <<c>>

\* bs4 "minimal" output formatter: & < > become entities
EscapeChar(c) ==
  IF c = "&" THEN <<"&", "a", "m", "p", ";">>
  ELSE IF c = "<" THEN <<"&", "l", "t", ";">>
  ELSE IF c = ">" THEN <<"&", "g", "t", ";">>
  ELSE <<c>>

RECURSIVE Escape(_)
Escape(s) == IF s = <<>> THEN <<>> ELSE EscapeChar(Head(s)) \o Escape(Tail(s))

StartsWith(s, p) == Len(s) >= Len(p) /\ SubSeq(s, 1, Len(p)) = p

\* html.parser entity references, as handled by the tree builder
RECURSIVE Unescape(_)
Unescape(s) ==
  IF s = <<>> THEN <<>>
  ELSE IF StartsWith(s, <<"&", "a", "m", "p", ";">>)
       THEN <<"&">> \o Unescape(SubSeq(s, 6, Len(s)))
  ELSE IF StartsWith(s, <<"&", "l", "t", ";">>)
       THEN <<"<">> \o Unescape(SubSeq(s, 5, Len(s)))
  ELSE IF StartsWith(s, <<"&", "g", "t", ";">>)
       THEN <<">">> \o Unescape(SubSeq(s, 5, Len(s)))
  ELSE <<Head(s)>> \o Unescape(Tail(s))

\* ------------------------------------------------------------------ the tree
\* a <div class="product-item"> and the fields its sub-elements carry
Item(hasName, name, price, img, alt, desc) ==
  [kind |-> "item", hasName |-> hasName, name |-> name, price |-> price,
   img |-> img, alt |-> alt, desc |-> desc]

\* any other direct child of a container (here <div class="banner">)
OtherChild == [kind |-> "other", hasName |-> FALSE, name |-> <<>>, price |-> <<>>,
               img |-> <<>>, alt |-> <<>>, desc |-> <<>>]

\* a top-level <div class=cls> with its direct children
Section(cls, children) == [kind |-> "section", cls |-> cls, children |-> children]

\* any other top-level element (here <h1>)
OtherTop == [kind |-> "other", cls |-> "", children |-> <<>>]

HitsClass == "hits-catalog"
CatalogClass == "product-catalog"
Sections == {"hits", "catalog"}

\* text of the info button, add_item line 269
ButtonLabel == <<"i", "n", "f", "o">>

\* placeholder of extract_items, line 161
Unnamed == <<"U", "n", "n", "a", "m", "e", "d">>

\* ------------------------------------------------------------------ str(soup)
SerText(s) == LET e == Escape(s) IN [i \in 1..Len(e) |-> Ch(e[i])]

RECURSIVE SerLines(_)
SerLines(ls) ==
  IF ls = <<>> THEN <<>>
  ELSE <<Open("li", "")>> \o SerText(Head(ls)) \o <<Close("li")>> \o SerLines(Tail(ls))

SerNode(n) ==
  IF n.kind = "other" THEN <<Open("div", "banner"), Close("div")>>
  ELSE <<Open("div", "product-item"), Open("div", "product-image"),
         ImgTag(Escape(n.img), Escape(n.alt)),
         Open("div", "product-description-modal"), Open("ul", "")>>
       \o SerLines(n.desc)
       \o <<Close("ul"), Close("div"), Open("button", "info-btn")>>
       \o SerText(ButtonLabel)
       \o <<Close("button"), Close("div")>>
       \o (IF n.hasName
           THEN <<Open("p", "product-name")>> \o SerText(n.name) \o <<Close("p")>>
           ELSE <<>>)
       \o <<Open("p", "product-price")>> \o SerText(n.price) \o <<Close("p")>>
       \o <<Close("div")>>

RECURSIVE SerChildren(_)
SerChildren(ns) == IF ns = <<>> THEN <<>> ELSE SerNode(Head(ns)) \o SerChildren(Tail(ns))

SerTop(t) ==
  IF t.kind = "other" THEN <<Open("h1", ""), Close("h1")>>
  ELSE <<Open("div", t.cls)>> \o SerChildren(t.children) \o <<Close("div")>>

RECURSIVE SerTops(_)
SerTops(ts) == IF ts = <<>> THEN <<>> ELSE SerTop(Head(ts)) \o SerTops(Tail(ts))

\* str(self.soup), save_soup line 143
Serialize(sp) == SerTops(sp.top)

\* ------------------------------------------------------------------ BeautifulSoup(contents, "html.parser")
Rest(s, n) == SubSeq(s, n + 1, Len(s))

RECURSIVE TextLen(_, _)
TextLen(s, i) == IF i <= Len(s) /\ s[i].k = "ch" THEN TextLen(s, i + 1) ELSE i - 1

TextOf(s, n) == [val |-> Unescape([i \in 1..n |-> s[i].c]), rest |-> Rest(s, n)]

\* the text node at the head of s, entities resolved
ParseText(s) == TextOf(s, TextLen(s, 1))

\* a parse result with one more value in front
Cons(v, r) == [val |-> <<v>> \o r.val, rest |-> r.rest]

RECURSIVE ParseLines(_)
LineThen(t) == Cons(t.val, ParseLines(Tail(t.rest)))

\* the <li> elements at the head of s
ParseLines(s) ==
  IF s # <<>> /\ Head(s).k = "open" /\ Head(s).tag = "li"
  THEN LineThen(ParseText(Tail(s)))
  ELSE [val |-> <<>>, rest |-> s]

ItemOf(hasName, name, img, lines, pr) ==
  [val |-> Item(hasName, name, pr.val, Unescape(img.src), Unescape(img.alt), lines),
   rest |-> Rest(pr.rest, 2)]

\* s starts at <p class="product-price">
ItemPrice(hasName, name, img, lines, s) ==
  ItemOf(hasName, name, img, lines, ParseText(Tail(s)))

ItemNamed(img, lines, nm) == ItemPrice(TRUE, nm.val, img, lines, Tail(nm.rest))

\* s starts after the image wrapper: <p class="product-name"> may be absent
ItemName(img, lines, s) ==
  IF s # <<>> /\ Head(s).k = "open" /\ Head(s).cls = "product-name"
  THEN ItemNamed(img, lines, ParseText(Tail(s)))
  ELSE ItemPrice(FALSE, <<>>, img, lines, s)

ItemButton(img, lines, btn) == ItemName(img, lines, Rest(btn.rest, 2))

ItemLines(img, ls) == ItemButton(img, ls.val, ParseText(Rest(ls.rest, 3)))

\* s starts after <div class="product-item">
ParseItem(s) == ItemLines(s[2], ParseLines(Rest(s, 4)))

RECURSIVE ParseChildren(_)
ChildThen(it) == Cons(it.val, ParseChildren(it.rest))

\* the children of a container, up to its end tag
ParseChildren(s) ==
  IF s = <<>> \/ Head(s).k # "open" THEN [val |-> <<>>, rest |-> s]
  ELSE IF Head(s).cls = "product-item" THEN ChildThen(ParseItem(Tail(s)))
  ELSE Cons(OtherChild, ParseChildren(Rest(s, 2)))

RECURSIVE ParseTops(_)
TopThen(cls, c) == <<Section(cls, c.val)>> \o ParseTops(Tail(c.rest))

\* the top-level elements of a file
ParseTops(s) ==
  IF s = <<>> THEN <<>>
  ELSE IF Head(s).tag = "div" THEN TopThen(Head(s).cls, ParseChildren(Tail(s)))
  ELSE <<OtherTop>> \o ParseTops(Rest(s, 2))

Parse(contents) == [top |-> ParseTops(contents)]

\* ------------------------------------------------------------------ files
File(data) == [kind |-> "file", data |-> data]
\* the path names nothing
NoFile == [kind |-> "missing", data |-> <<>>]
\* the path names a directory
IsDir == [kind |-> "dir", data |-> <<>>]

\* what a transfer that breaks off may have written: the first k top-level
\* elements of the source, k less than their number (nothing when k = 0)
PrefixesOf(top) ==
  {SerTops(SubSeq(top, 1, k)) : k \in 0..(IF top = <<>> THEN 0 ELSE Len(top) - 1)}

Partials(data) == PrefixesOf(ParseTops(data))

FtpOutcomes == {"connect_fail", "login_fail", "cwd_fail", "transfer_fail", "ok"}

\* ------------------------------------------------------------------ FTP helpers
\* _ftp_connect: raised = an exception leaves the function; open = the
\* number of connections it has opened and not closed
_ftp_connect(outcome) ==
  IF outcome = "connect_fail" THEN [raised |-> TRUE, open |-> 0]
  ELSE IF outcome \in {"login_fail", "cwd_fail"} THEN [raised |-> TRUE, open |-> 1]
  ELSE [raised |-> FALSE, open |-> 1]

\* _ftp_download: open(html_path, "wb") truncates before RETR is sent
_ftp_download(st, outcome, partial) ==
  LET c == _ftp_connect(outcome) IN
  IF c.raised
  THEN [st |-> [st EXCEPT !.ftp_open = @ + c.open], raised |-> TRUE]
  ELSE IF outcome = "transfer_fail"
  THEN [st |-> [st EXCEPT !.html_file = File(partial), !.local_written = TRUE],
        raised |-> TRUE]
  ELSE [st |-> [st EXCEPT !.html_file = File(st.remote_file), !.local_written = TRUE],
        raised |-> FALSE]

\* _ftp_upload
_ftp_upload(st, outcome, partial) ==
  LET c == _ftp_connect(outcome)
      a == [st EXCEPT !.upload_attempted = TRUE]
  IN
  IF c.raised
  THEN [st |-> [a EXCEPT !.ftp_open = @ + c.open], raised |-> TRUE]
  ELSE IF outcome = "transfer_fail"
  THEN [st |-> [a EXCEPT !.remote_file = partial], raised |-> TRUE]
  ELSE [st |-> [a EXCEPT !.remote_file = st.html_file.data], raised |-> FALSE]

\* ------------------------------------------------------------------ core HTML operations
RECURSIVE FindFrom(_, _, _)
FindFrom(top, cls, i) ==
  IF i > Len(top) THEN 0
  ELSE IF top[i].kind = "section" /\ top[i].cls = cls THEN i
  ELSE FindFrom(top, cls, i + 1)

\* soup.find("div", class_=cls): position of the first match, 0 for None
Find(sp, cls) == FindFrom(sp.top, cls, 1)

hits_catalog(sp) == Find(sp, HitsClass)
product_catalog(sp) == Find(sp, CatalogClass)

\* container = self.hits_catalog if section == "hits" else self.product_catalog
Container(sp, section) == IF section = "hits" THEN hits_catalog(sp) ELSE product_catalog(sp)

Children(sp, section) == sp.top[Container(sp, section)].children

RECURSIVE ItemsFrom(_, _)
ItemsFrom(children, i) ==
  IF i > Len(children) THEN <<>>
  ELSE IF children[i].kind = "item" THEN <<i>> \o ItemsFrom(children, i + 1)
  ELSE ItemsFrom(children, i + 1)

\* container.find_all("div", class_="product-item", recursive=False):
\* the positions of the item children, in document order
FindAllItems(children) == ItemsFrom(children, 1)

\* extract_items: name is the listed name, pos and elem are the element
extract_items(sp, section) ==
  LET c == Children(sp, section)
      idx == FindAllItems(c)
  IN [j \in 1..Len(idx) |->
        [name |-> IF c[idx[j]].hasName THEN Strip(c[idx[j]].name) ELSE Unnamed,
         pos |-> idx[j],
         elem |-> c[idx[j]]]]

Names(entries) == [j \in 1..Len(entries) |-> entries[j].name]

\* refresh_lists
refresh_lists(st) ==
  [st EXCEPT !.hits_var = Names(extract_items(st.soup, "hits")),
             !.catalog_var = Names(extract_items(st.soup, "catalog"))]

\* reload_soup lines 128-137: both sections must be found
Loaded(st, sp) ==
  IF hits_catalog(sp) = 0 \/ product_catalog(sp) = 0
  THEN [st EXCEPT !.soup = sp, !.dialogs = Append(@, "Invalid template"),
                  !.phase = "exited"]
  ELSE [st EXCEPT !.soup = sp]

\* reload_soup: FileNotFoundError and a missing section end in sys.exit(1);
\* a directory raises IsADirectoryError, which nothing catches
reload_soup(st) ==
  IF st.html_file.kind = "missing"
  THEN [st EXCEPT !.dialogs = Append(@, "File not found"), !.phase = "exited"]
  ELSE IF st.html_file.kind = "dir"
  THEN [st EXCEPT !.phase = "crashed"]
  ELSE Loaded(st, Parse(st.html_file.data))

\* save_soup line 142-143
WriteLocal(st) == [st EXCEPT !.html_file = File(Serialize(st.soup)), !.local_written = TRUE]

\* the local file is put back when the upload fails
UploadedRollback(old, u) ==
  IF u.raised
  THEN [u.st EXCEPT !.html_file = old, !.dialogs = Append(@, "FTP upload error")]
  ELSE u.st

\* save_soup lines 146-149
Uploaded(old, u) ==
  IF u.raised THEN [u.st EXCEPT !.dialogs = Append(@, "FTP upload error")] ELSE u.st

\* save_soup undoes the local write when the upload fails
save_soup_rollback(st, ftp, outcome, partial) ==
  IF ftp THEN UploadedRollback(st.html_file, _ftp_upload(WriteLocal(st), outcome, partial))
  ELSE WriteLocal(st)

\* save_soup
save_soup(st, ftp, outcome, partial) ==
  IF ftp THEN Uploaded(st.html_file, _ftp_upload(WriteLocal(st), outcome, partial))
  ELSE WriteLocal(st)

\* save_changes
save_changes(st, ftp, outcome, partial) ==
  [save_soup(st, ftp, outcome, partial) EXCEPT !.dialogs = Append(@, "Saved")]

NewItem(name, price, img_url, lines) == Item(TRUE, name, price, img_url, name, lines)

\* add_item puts the new element first in the container
add_item_first(st, section, name, price, img_url, description_lines) ==
  LET ci == Container(st.soup, section)
      item_div == NewItem(name, price, img_url, description_lines)
  IN refresh_lists([st EXCEPT !.soup.top[ci].children = <<item_div>> \o @])

\* add_item saves after the insertion
add_item_saving(st, section, name, price, img_url, description_lines) ==
  LET ci == Container(st.soup, section)
      item_div == NewItem(name, price, img_url, description_lines)
      a == [st EXCEPT !.soup.top[ci].children = Append(@, item_div)]
  IN refresh_lists([a EXCEPT !.html_file = File(Serialize(a.soup)),
                             !.local_written = TRUE])

\* add_item
add_item(st, section, name, price, img_url, description_lines) ==
  LET ci == Container(st.soup, section)
      item_div == NewItem(name, price, img_url, description_lines)
  IN refresh_lists([st EXCEPT !.soup.top[ci].children = Append(@, item_div)])

\* open_add_dialog.add_action: form holds the raw contents of the four widgets
add_action(st, section, form) ==
  LET name == Strip(form.name)
      price == Strip(form.price)
      img_url == Strip(form.img)
      description == Strip(form.description)
  IN IF name = <<>> \/ price = <<>> \/ img_url = <<>> \/ description = <<>>
     THEN [st EXCEPT !.dialogs = Append(@, "Fields empty")]
     ELSE add_item(st, section, name, price, img_url, DescLines(description))

RemoveAt(s, i) == SubSeq(s, 1, i - 1) \o SubSeq(s, i + 1, Len(s))

\* remove_selected checks only the upper bound; a negative index counts from the end
remove_selected_negative(st, section, selection, confirm) ==
  LET ci == Container(st.soup, section)
      items == FindAllItems(st.soup.top[ci].children)
  IN
  IF selection = <<>> THEN [st EXCEPT !.dialogs = Append(@, "Not selected")]
  ELSE LET index == selection[1] IN
       IF index >= Len(items) \/ index < -Len(items)
       THEN [st EXCEPT !.dialogs = Append(@, "Index out of range")]
       ELSE IF ~confirm THEN [st EXCEPT !.dialogs = Append(@, "Confirm removal: no")]
       ELSE LET k == IF index < 0 THEN Len(items) + index + 1 ELSE index + 1 IN
            refresh_lists([st EXCEPT !.dialogs = Append(@, "Confirm removal: yes"),
                                     !.soup.top[ci].children = RemoveAt(@, items[k])])

\* remove_selected indexes all the children of the container
remove_selected_child(st, section, selection, confirm) ==
  LET ci == Container(st.soup, section)
      items == FindAllItems(st.soup.top[ci].children)
  IN
  IF selection = <<>> THEN [st EXCEPT !.dialogs = Append(@, "Not selected")]
  ELSE LET index == selection[1] IN
       IF index < 0 \/ index >= Len(items)
       THEN [st EXCEPT !.dialogs = Append(@, "Index out of range")]
       ELSE IF ~confirm THEN [st EXCEPT !.dialogs = Append(@, "Confirm removal: no")]
       ELSE refresh_lists([st EXCEPT !.dialogs = Append(@, "Confirm removal: yes"),
                                     !.soup.top[ci].children = RemoveAt(@, index + 1)])

\* remove_selected: selection is listbox.curselection(), confirm the answer
\* to the askyesno dialog
remove_selected(st, section, selection, confirm) ==
  LET ci == Container(st.soup, section)
      items == FindAllItems(st.soup.top[ci].children)
  IN
  IF selection = <<>> THEN [st EXCEPT !.dialogs = Append(@, "Not selected")]
  ELSE LET index == selection[1] IN
       IF index < 0 \/ index >= Len(items)
       THEN [st EXCEPT !.dialogs = Append(@, "Index out of range")]
       ELSE IF ~confirm THEN [st EXCEPT !.dialogs = Append(@, "Confirm removal: no")]
       ELSE refresh_lists([st EXCEPT !.dialogs = Append(@, "Confirm removal: yes"),
                                     !.soup.top[ci].children = RemoveAt(@, items[index + 1])])

\* __init__ lines 57-60: a directory path is replaced by a fresh temporary file
WorkingCopy(st) == IF st.html_file.kind = "dir" THEN [st EXCEPT !.html_file = File(<<>>)] ELSE st

\* __init__ lines 64-67
Downloaded(d) ==
  IF d.raised THEN [d.st EXCEPT !.dialogs = Append(@, "FTP download error")] ELSE d.st

\* __init__ lines 73-75; reload_soup may have left through sys.exit
Constructed(r) ==
  IF r.phase # "init" THEN r ELSE refresh_lists([r EXCEPT !.phase = "running"])

\* __init__ downloads whether or not the credentials are set
MenuEditor_init_always(st, ftp, outcome, partial) ==
  Constructed(reload_soup(Downloaded(_ftp_download(WorkingCopy(st), outcome, partial))))

\* MenuEditor.__init__: ftp is "all three credentials are set"
MenuEditor_init(st, ftp, outcome, partial) ==
  Constructed(reload_soup(
    IF ftp THEN Downloaded(_ftp_download(WorkingCopy(st), outcome, partial)) ELSE st))

\* ------------------------------------------------------------------ inputs
\* contents of the add dialog: a padded name that reads as an entity, markup
\* characters, blank description lines; and a name of white space only
AddForms ==
  { [name |-> <<" ", "&", "l", "t", ";">>, price |-> <<"<">>, img |-> <<"&">>,
     description |-> <<"x", "\n", " ", "\n", "y", " ">>],
    [name |-> <<" ">>, price |-> <<"1">>, img |-> <<"u">>, description |-> <<"x">>] }

Burger == Item(TRUE, <<"B">>, <<"1", "9", "9">>, <<"b">>, <<"B">>, << <<"m">> >>)
NoNameItem == Item(FALSE, <<>>, <<"5">>, <<"n">>, <<>>, <<>>)
EmptyNameItem == Item(TRUE, <<>>, <<"6">>, <<"e">>, <<>>, <<>>)
PaddedItem == Item(TRUE, <<" ", "P", " ">>, <<"7">>, <<"p">>, <<"P">>, <<>>)

\* documents on disk or on the server when the program starts
DocScenario == [top |-> <<OtherTop, Section(HitsClass, <<>>),
                          Section(CatalogClass, <<Burger>>), OtherTop>>]
DocMixed == [top |-> <<Section(HitsClass, <<OtherChild, NoNameItem>>),
                       Section(CatalogClass, <<EmptyNameItem, PaddedItem>>)>>]
DocNoHits == [top |-> <<Section(CatalogClass, <<Burger>>)>>]
DocNoCatalog == [top |-> <<OtherTop, Section(HitsClass, <<>>)>>]

InitLocal == {NoFile, IsDir, File(Serialize(DocMixed)), File(Serialize(DocNoCatalog))}
InitRemote == {Serialize(DocScenario), Serialize(DocNoHits)}

\* listbox.curselection(): nothing, or one index; the indexes tried run from
\* -1 to one past the last item
Selections(n) == {<<>>} \cup {<<i>> : i \in -1..n}

NoOp == [op |-> "none", section |-> "", name |-> <<>>, price |-> <<>>, img |-> <<>>,
         lines |-> <<>>, sel |-> <<>>, outcome |-> ""]

\* ------------------------------------------------------------------ state machine
\* the editor and its surroundings at the start of a handler
St == [phase |-> phase, soup |-> soup, hits_var |-> hits_var, catalog_var |-> catalog_var,
       html_file |-> html_file, remote_file |-> remote_file, dialogs |-> <<>>,
       ftp_open |-> 0, local_written |-> local_written,
       upload_attempted |-> upload_attempted]

Apply(r) ==
  /\ phase' = r.phase
  /\ soup' = r.soup
  /\ hits_var' = r.hits_var
  /\ catalog_var' = r.catalog_var
  /\ html_file' = r.html_file
  /\ remote_file' = r.remote_file
  /\ dialogs' = r.dialogs
  /\ ftp_open' = r.ftp_open
  /\ local_written' = r.local_written
  /\ upload_attempted' = r.upload_attempted
  /\ UNCHANGED <<use_ftp, start_remote>>

Init ==
  /\ phase = "init"
  /\ use_ftp \in BOOLEAN
  /\ html_file \in InitLocal
  /\ remote_file \in InitRemote
  /\ start_remote = remote_file
  /\ soup = [top |-> <<>>]
  /\ hits_var = <<>>
  /\ catalog_var = <<>>
  /\ dialogs = <<>>
  /\ ftp_open = 0
  /\ local_written = FALSE
  /\ upload_attempted = FALSE
  /\ ops = 0
  /\ lastOp = NoOp

\* main: the editor is constructed (download, load, first refresh)
Start ==
  /\ phase = "init"
  /\ \E outcome \in (IF use_ftp THEN FtpOutcomes ELSE {"none"}) :
     \E partial \in (IF outcome = "transfer_fail" THEN Partials(remote_file) ELSE {<<>>}) :
        /\ Apply(MenuEditor_init(St, use_ftp, outcome, partial))
        /\ lastOp' = [NoOp EXCEPT !.op = "start", !.outcome = outcome]
        /\ ops' = 0

\* the "add" button of the dialog opened for a section
AddAction ==
  /\ phase = "running"
  /\ ops < MaxOps
  /\ \E section \in Sections, form \in AddForms :
        LET valid == Strip(form.name) # <<>> /\ Strip(form.price) # <<>>
                     /\ Strip(form.img) # <<>> /\ Strip(form.description) # <<>>
        IN /\ Apply(add_action(St, section, form))
           /\ lastOp' = IF valid
                        THEN [NoOp EXCEPT !.op = "add", !.section = section,
                                          !.name = Strip(form.name),
                                          !.price = Strip(form.price),
                                          !.img = Strip(form.img),
                                          !.lines = DescLines(Strip(form.description))]
                        ELSE [NoOp EXCEPT !.op = "add_rejected", !.section = section]
           /\ ops' = ops + 1

\* the "remove" button of a section
RemoveSelected ==
  /\ phase = "running"
  /\ ops < MaxOps
  /\ \E section \in Sections, confirm \in BOOLEAN :
     \E selection \in Selections(Len(extract_items(soup, section))) :
        /\ Apply(remove_selected(St, section, selection, confirm))
        /\ lastOp' = [NoOp EXCEPT !.op = "remove", !.section = section, !.sel = selection]
        /\ ops' = ops + 1

\* the "save" button
SaveChanges ==
  /\ phase = "running"
  /\ ops < MaxOps
  /\ \E outcome \in (IF use_ftp THEN FtpOutcomes ELSE {"none"}) :
     \E partial \in (IF outcome = "transfer_fail"
                     THEN Partials(Serialize(soup)) \cup {remote_file} ELSE {<<>>}) :
        /\ Apply(save_changes(St, use_ftp, outcome, partial))
        /\ lastOp' = [NoOp EXCEPT !.op = "save", !.outcome = outcome]
        /\ ops' = ops + 1

Next == Start \/ AddAction \/ RemoveSelected \/ SaveChanges

Spec == Init /\ [][Next]_vars

\* ------------------------------------------------------------------ properties
Shown(d) == \E i \in 1..Len(dialogs) : dialogs[i] = d
ShownNext(d) == \E i \in 1..Len(dialogs') : dialogs'[i] = d

\* an entry of a listing without its position among the children
Proj(e) == <<e.name, e.elem>>
Listing(sp, section) ==
  LET es == extract_items(sp, section) IN [j \in 1..Len(es) |-> Proj(es[j])]

HasBoth(sp) == hits_catalog(sp) # 0 /\ product_catalog(sp) # 0

\* what a fresh load of the given file yields
Reloaded(file) ==
  reload_soup([phase |-> "init", soup |-> [top |-> <<>>], html_file |-> file,
               dialogs |-> <<>>])

\* the load r went through and lists in both sections what sp lists
SameListings(r, sp) ==
  /\ r.phase = "init"
  /\ \A section \in Sections : extract_items(r.soup, section) = extract_items(sp, section)

\* C1: after add_item the listing of the section is the previous listing
\* with one entry appended; that entry is the last child of the container
\* and carries the supplied name, price and description lines
C1_AddAppendsLast ==
  [][lastOp'.op = "add" =>
       LET before == extract_items(soup, lastOp'.section)
           after == extract_items(soup', lastOp'.section)
       IN /\ Len(after) = Len(before) + 1
          /\ SubSeq(after, 1, Len(before)) = before
          /\ after[Len(after)].pos = Len(Children(soup', lastOp'.section))
          /\ after[Len(after)].name = lastOp'.name
          /\ after[Len(after)].elem.name = lastOp'.name
          /\ after[Len(after)].elem.price = lastOp'.price
          /\ after[Len(after)].elem.desc = lastOp'.lines]_vars

\* an item was added behind existing items, with two description lines
C1_Witness ==
  /\ lastOp.op = "add"
  /\ Len(lastOp.lines) = 2
  /\ Len(extract_items(soup, lastOp.section)) >= 2
  /\ extract_items(soup, lastOp.section)[Len(extract_items(soup, lastOp.section))].name
       = lastOp.name

InRange(sp, section, sel) ==
  sel # <<>> /\ sel[1] >= 0 /\ sel[1] < Len(extract_items(sp, section))

\* C2: a confirmed remove of index i, 0 <= i < n, leaves n-1 items: those
\* before i keep their places, item i is gone, those after i move down by one
C2_RemoveShifts ==
  [][(lastOp'.op = "remove" /\ InRange(soup, lastOp'.section, lastOp'.sel)
        /\ ShownNext("Confirm removal: yes")) =>
       LET before == Listing(soup, lastOp'.section)
           after == Listing(soup', lastOp'.section)
           i == lastOp'.sel[1]
       IN /\ Len(after) = Len(before) - 1
          /\ \A j \in 1..Len(after) :
                after[j] = IF j <= i THEN before[j] ELSE before[j + 1]]_vars

\* the first of several items was removed and a later one moved down
C2_Witness ==
  /\ lastOp.op = "remove"
  /\ lastOp.sel = <<0>>
  /\ Shown("Confirm removal: yes")
  /\ Len(extract_items(soup, lastOp.section)) >= 1

\* C3: a remove whose index is out of range changes neither the document
\* nor the files, shows the error and leaves the session running
C3_OutOfRangeRejected ==
  [][(lastOp'.op = "remove" /\ lastOp'.sel # <<>>
        /\ ~InRange(soup, lastOp'.section, lastOp'.sel)) =>
       /\ soup' = soup
       /\ hits_var' = hits_var
       /\ catalog_var' = catalog_var
       /\ html_file' = html_file
       /\ remote_file' = remote_file
       /\ dialogs' = <<"Index out of range">>
       /\ phase' = "running"]_vars

\* an index below zero was rejected on a section that has items
C3_Witness ==
  /\ lastOp.op = "remove"
  /\ lastOp.sel = <<-1>>
  /\ Len(extract_items(soup, lastOp.section)) >= 1
  /\ dialogs = <<"Index out of range">>
  /\ phase = "running"

\* C4, as claimed: when the load ends the session for a missing section,
\* the process has neither written the local file nor attempted an upload
C4_NothingWritten ==
  (phase = "exited" /\ Shown("Invalid template")) =>
     ~local_written /\ ~upload_attempted

\* C4, amended: a loaded document that lacks a section ends the session
\* with the error shown, no upload attempted and the remote file as it was;
\* the local file is written by the download only, so not at all without FTP
C4_LoadFailureWritesNothingElse ==
  [][(phase = "init" /\ html_file'.kind = "file" /\ ~HasBoth(Parse(html_file'.data))) =>
       /\ phase' = "exited"
       /\ ShownNext("Invalid template")
       /\ ~upload_attempted'
       /\ remote_file' = remote_file
       /\ local_written' => (use_ftp /\ lastOp'.outcome \in {"transfer_fail", "ok"})
       /\ ~use_ftp => html_file' = html_file]_vars

\* the download replaced the local file and the load then ended the session
C4_Witness ==
  /\ phase = "exited"
  /\ Shown("Invalid template")
  /\ use_ftp
  /\ lastOp.outcome = "ok"
  /\ local_written
  /\ ~upload_attempted

\* C5: when the upload of a save fails, the local file holds the
\* serialization of the document, the failure is shown, the document is
\* unchanged and the session goes on
C5_UploadFailureKeepsLocal ==
  [][(lastOp'.op = "save" /\ use_ftp /\ lastOp'.outcome # "ok") =>
       /\ html_file' = File(Serialize(soup))
       /\ ShownNext("FTP upload error")
       /\ soup' = soup
       /\ phase' = "running"]_vars

\* a save whose upload failed after an edit: local file new, remote file not
C5_Witness ==
  /\ lastOp.op = "save"
  /\ lastOp.outcome = "login_fail"
  /\ Shown("FTP upload error")
  /\ phase = "running"
  /\ html_file = File(Serialize(soup))
  /\ remote_file # Serialize(soup)

\* C6: a failed download at startup leaves the local file as it was, is
\* shown to the user, and the editor loads that earlier local content
C6_DownloadFailureKeepsLocal ==
  [][(phase = "init" /\ use_ftp /\ lastOp'.op = "start" /\ lastOp'.outcome # "ok") =>
       /\ ShownNext("FTP download error")
       /\ html_file' = WorkingCopy([html_file |-> html_file]).html_file
       /\ LET r == Reloaded(WorkingCopy([html_file |-> html_file]).html_file)
          IN r.phase = "init" => (phase' = "running" /\ soup' = r.soup)]_vars

\* C7: after a save, a reload of the local file lists in each section the
\* same items in the same order with the same fields
C7_SaveReloadSameListing ==
  [][lastOp'.op = "save" => SameListings(Reloaded(html_file'), soup)]_vars

\* an item added to "hits" was saved; its name reads like an entity
C7_Witness ==
  /\ lastOp.op = "save"
  /\ \E j \in 1..Len(hits_var) : hits_var[j] = <<"&", "l", "t", ";">>
  /\ Reloaded(html_file).soup = soup

\* C8: no connection is open once a download or upload has returned or raised
C8_NoConnectionLeftOpen == ftp_open = 0

\* C9: one entry per direct item child in document order; the name is the
\* placeholder when the name element is absent or empty, else its stripped text
C9_PlaceholderWhenAbsentOrEmpty ==
  phase = "running" =>
    \A section \in Sections :
      LET es == extract_items(soup, section)
          c == Children(soup, section)
      IN /\ \A j \in 1..Len(es) : c[es[j].pos].kind = "item" /\ es[j].elem = c[es[j].pos]
         /\ \A j \in 1..(Len(es) - 1) : es[j].pos < es[j + 1].pos
         /\ Len(es) = Cardinality({i \in 1..Len(c) : c[i].kind = "item"})
         /\ \A j \in 1..Len(es) :
               es[j].name = IF ~es[j].elem.hasName \/ Strip(es[j].elem.name) = <<>>
                            THEN Unnamed ELSE Strip(es[j].elem.name)

====
